---------------------------- MODULE Spec2Model ----------------------------
(***************************************************************************)
(* Retrospective virtual screening session of OpenPharmacophore            *)
(* (openpharmacophore/screening/retrospective.py, class                    *)
(* RetrospectiveScreening): loading labelled molecules, scoring them with  *)
(* the geometric ("SSD") or the fingerprint ("Similarity") strategy, and   *)
(* the metrics computed from the scored molecules.                         *)
(*                                                                         *)
(* Floating point numbers are modelled as exact fractions <<num, den>>     *)
(* with den >= 0.  den = 0 encodes the non-finite values numpy produces    *)
(* when a numpy scalar divides by zero: <<0, 0>> is NaN, <<1, 0>> is +Inf.  *)
(* Python indices are 0-based, the sequences here are 1-based.             *)
(***************************************************************************)
EXTENDS Integers, Sequences, FiniteSets, TLC

\* ------------------------------------------------------------------ bounds
\* Largest number of molecules a session is given, over all its loads.
MaxMols == 3

\* ------------------------------------------------------- exact fractions
Abs(x) == IF x < 0 THEN -x ELSE x

Sign(x) == IF x < 0 THEN -1 ELSE IF x > 0 THEN 1 ELSE 0

\* a / b where at least one operand is a numpy scalar: a zero divisor gives
\* NaN or +-Inf (and a warning), never an exception.
Div(a, b) == IF b = 0 THEN <<Sign(a), 0>> ELSE <<a, b>>

IsNaN(x) == x = <<0, 0>>

IsFinite(x) == x[2] > 0

\* comparisons of floats; every comparison with NaN is false
FEq(x, y) ==
    IF IsFinite(x) /\ IsFinite(y) THEN x[1] * y[2] = y[1] * x[2]
    ELSE ~IsNaN(x) /\ ~IsNaN(y) /\ x = y

FLt(x, y) ==
    IF IsNaN(x) \/ IsNaN(y) THEN FALSE
    ELSE IF IsFinite(x) /\ IsFinite(y) THEN x[1] * y[2] < y[1] * x[2]
    ELSE IF IsFinite(x) THEN y[1] > 0
    ELSE IF IsFinite(y) THEN x[1] < 0
    ELSE x[1] < y[1]

FLe(x, y) == FLt(x, y) \/ FEq(x, y)

\* the float of an integer
Num(k) == <<k, 1>>

\* float * integer
Scale(x, k) == IF IsFinite(x) THEN <<x[1] * k, x[2]>>
               ELSE IF k = 0 THEN <<0, 0>> ELSE <<x[1] * Sign(k), 0>>

\* ------------------------------------------------------------- the state
VARIABLES
    scoring_metric,  \* "SSD" or "Similarity", fixed by __init__
    n_actives,       \* self.n_actives
    n_inactives,     \* self.n_inactives
    bioactivities,   \* self.bioactivities: None or the label array
    molecules,       \* self.molecules: the list of MolScore records
    n_molecules,     \* self.n_molecules
    result,          \* the last call: its name, arguments and outcome
    argsort_ties     \* the order the build's np.argsort gives equal elements

session == <<scoring_metric, n_actives, n_inactives, bioactivities,
             molecules, n_molecules>>

vars == <<scoring_metric, n_actives, n_inactives, bioactivities,
          molecules, n_molecules, result, argsort_ties>>

\* Python's None. A variable that holds None or an array holds <<>> or the
\* one-element tuple of the array, so that None differs from the empty array.
None == <<>>

Some(a) == <<a>>

\* the label array self.bioactivities refers to, when it is not None
Labels == bioactivities[1]

NoResult == [op |-> "__init__", arg |-> None, status |-> "ok", value |-> None]

Returned(op, arg, v) == [op |-> op, arg |-> arg, status |-> "ok", value |-> v]

Raised(op, arg, err) == [op |-> op, arg |-> arg, status |-> err, value |-> None]

Init ==
    /\ scoring_metric \in {"SSD", "Similarity"}
    /\ n_actives = 0
    /\ n_inactives = 0
    /\ bioactivities = None
    /\ molecules = <<>>
    /\ n_molecules = 0
    /\ result = NoResult
    /\ argsort_ties \in {"kept", "reversed"}

\* ------------------------------------------------------ scoring molecules
\* What the external aligner does with one molecule: the outcome of
\* MatchPharmacophoreToMol, MatchPharmacophore, EmbedPharmacophore and
\* transform_embeddings (the SSD of every embedding returned).
SSDLists == { <<2, 3>>, <<2, 1>> }

AlignerOutcomes ==
    { [can_match |-> FALSE, failed |-> FALSE, throws |-> FALSE, SSDs |-> <<>>],
      [can_match |-> TRUE, failed |-> TRUE, throws |-> FALSE, SSDs |-> <<>>],
      [can_match |-> TRUE, failed |-> FALSE, throws |-> TRUE, SSDs |-> <<>>],
      [can_match |-> TRUE, failed |-> FALSE, throws |-> FALSE, SSDs |-> <<>>] }
    \cup { [can_match |-> TRUE, failed |-> FALSE, throws |-> FALSE, SSDs |-> s] :
             s \in SSDLists }

\* What the external fingerprinter gives for one molecule: its similarity to
\* the pharmacophore fingerprint, in [0, 1].
Similarities == { <<0, 1>>, <<1, 2>>, <<1, 1>> }

\* MolScore(score, id, mol)
MolScore(score, id, mol) == [score |-> score, id |-> id, mol |-> mol]

\* the first index of a greatest SSD
worst_fit_index(SSDs) ==
    CHOOSE i \in 1..Len(SSDs) :
        /\ \A j \in 1..Len(SSDs) : SSDs[i] >= SSDs[j]
        /\ \A j \in 1..(i - 1) : SSDs[j] < SSDs[i]

\* min(enumerate(SSDs), key=itemgetter(1))[0]: the first index of a least SSD
best_fit_index(SSDs) ==
    CHOOSE i \in 1..Len(SSDs) :
        /\ \A j \in 1..Len(SSDs) : SSDs[i] <= SSDs[j]
        /\ \A j \in 1..(i - 1) : SSDs[j] > SSDs[i]

\* One pass of the loop of _align_molecules: the records appended for mol.
AlignOne(mol) ==
    LET o == mol.aligner IN
    IF ~o.can_match THEN << MolScore(Num(0), mol.id, <<"mol", mol.id>>) >>
    ELSE IF o.failed THEN << MolScore(Num(0), mol.id, <<"mol", mol.id>>) >>
    ELSE IF o.throws THEN << >>
    ELSE IF Len(o.SSDs) = 0 THEN << MolScore(Num(0), mol.id, <<"mol", mol.id>>) >>
    ELSE LET b == best_fit_index(o.SSDs) IN
         << MolScore(Div(1, o.SSDs[b]), mol.id, <<"embedding", mol.id, b>>) >>

RECURSIVE AlignAll(_, _)
AlignAll(mols, store) ==
    IF mols = <<>> THEN store
    ELSE AlignAll(Tail(mols), store \o AlignOne(Head(mols)))

\* One pass of the loop of _fingerprint_similarity.
SimilarityOne(mol) == << MolScore(mol.similarity, mol.id, <<"mol", mol.id>>) >>

RECURSIVE SimilarityAll(_, _)
SimilarityAll(mols, store) ==
    IF mols = <<>> THEN store
    ELSE SimilarityAll(Tail(mols), store \o SimilarityOne(Head(mols)))

\* np.sum(activity)
RECURSIVE Sum(_)
Sum(s) == IF s = <<>> THEN 0 ELSE Head(s) + Sum(Tail(s))

\* The molecule lists a caller may pass. The caller names the molecules by
\* serial number: the k-th molecule the session is ever given has the id k.
\* What the aligner or the fingerprinter does with a molecule is free.
NoAligner == [can_match |-> FALSE, failed |-> FALSE, throws |-> FALSE, SSDs |-> <<>>]

Behaviours(metric) ==
    IF metric = "SSD"
    THEN { [aligner |-> o, similarity |-> <<0, 1>>] : o \in AlignerOutcomes }
    ELSE { [aligner |-> NoAligner, similarity |-> s] : s \in Similarities }

\* the number of molecules the session has been given so far
Given == IF n_molecules > Len(molecules) THEN n_molecules ELSE Len(molecules)

Molecules(metric, n) ==
    { [i \in 1..n |-> [id |-> Given + i, aligner |-> b[i].aligner,
                       similarity |-> b[i].similarity]] :
        b \in [1..n -> Behaviours(metric)] }

Activities(n) == [1..n -> {0, 1}]

\* from_bioactivity_data(smiles, activity) with a label array of rank > 1
from_bioactivity_data_BadShape ==
    /\ result' = Raised("from_bioactivity_data", "rank 2", "BadShapeError")
    /\ UNCHANGED <<session, argsort_ties>>

\* a from_bioactivity_data that stores the labels and their counts before it
\* compares the two lengths
from_bioactivity_data_Mismatch_late ==
    /\ \E activity \in Activities(1) :
         /\ n_actives' = Sum(activity)
         /\ n_inactives' = Len(activity) - Sum(activity)
         /\ bioactivities' = Some(activity)
    /\ result' = Raised("from_bioactivity_data", "lengths differ",
                        "OpenPharmacophoreValueError")
    /\ UNCHANGED <<scoring_metric, molecules, n_molecules, argsort_ties>>

\* from_bioactivity_data(smiles, activity) with len(smiles) != activity.shape[0]
from_bioactivity_data_Mismatch ==
    /\ \E n \in {0, MaxMols}, m \in {0, MaxMols} :
         /\ n # m
         /\ result' = Raised("from_bioactivity_data", "lengths differ",
                             "OpenPharmacophoreValueError")
    /\ UNCHANGED <<session, argsort_ties>>

\* from_bioactivity_data(smiles, activity) with a rank 1 label array as long
\* as smiles, every SMILES of which parses
from_bioactivity_data_Score ==
    /\ \E n \in 0..(MaxMols - Given) :
         \E activity \in Activities(n) :
         \E mols \in Molecules(scoring_metric, n) :
              /\ n_actives' = Sum(activity)
              /\ n_inactives' = Len(activity) - Sum(activity)
              /\ bioactivities' = Some(activity)
              /\ IF scoring_metric = "Similarity"
                 THEN /\ n_molecules' = Len(mols)
                      /\ molecules' = SimilarityAll(mols, molecules)
                 ELSE /\ n_molecules' = n_molecules + Len(mols)
                      /\ molecules' = AlignAll(mols, molecules)
              /\ result' = Returned("from_bioactivity_data",
                                    [molecules |-> mols, activity |-> activity],
                                    None)
    /\ UNCHANGED <<scoring_metric, argsort_ties>>

\* ------------------------------------------------------- more float helpers
\* x + y
FAdd(x, y) ==
    IF IsFinite(x) /\ IsFinite(y)
    THEN IF x[2] = y[2] THEN <<x[1] + y[1], x[2]>>
         ELSE <<x[1] * y[2] + y[1] * x[2], x[2] * y[2]>>
    ELSE IF IsNaN(x) \/ IsNaN(y) THEN <<0, 0>>
    ELSE IF IsFinite(x) THEN y
    ELSE IF IsFinite(y) THEN x
    ELSE IF x = y THEN x ELSE <<0, 0>>

\* x * y
FMul(x, y) ==
    IF IsFinite(x) /\ IsFinite(y) THEN <<x[1] * y[1], x[2] * y[2]>>
    ELSE <<Sign(x[1]) * Sign(y[1]), 0>>

\* x / y for numpy floats
FDiv(x, y) ==
    IF IsNaN(x) \/ IsNaN(y) THEN <<0, 0>>
    ELSE IF IsFinite(x) /\ IsFinite(y)
    THEN IF y[1] = 0 THEN <<Sign(x[1]), 0>>
         ELSE <<x[1] * y[2] * Sign(y[1]), x[2] * Abs(y[1])>>
    ELSE IF IsFinite(x) THEN <<0, 1>>
    ELSE IF IsFinite(y) THEN <<x[1] * (IF y[1] < 0 THEN -1 ELSE 1), 0>>
    ELSE <<0, 0>>

\* ------------------------------------------------------------ the metrics
\* The arguments the metrics are called with.
Thresholds == {None, <<0, 1>>, <<1, 2>>}

Percentages == {-1, 0, 50, 100, 101}

\* scores = [x[0] for x in self.molecules]
Scores == [i \in 1..Len(molecules) |-> molecules[i].score]

Reverse(s) == [i \in 1..Len(s) |-> s[Len(s) + 1 - i]]

\* the ascending orders of the indices in S, least element first
RECURSIVE AscendingOrders(_, _)
AscendingOrders(a, S) ==
    IF S = {} THEN { <<>> }
    ELSE UNION { { <<i>> \o rest : rest \in AscendingOrders(a, S \ {i}) } :
                 i \in { j \in S : \A k \in S : FLe(a[j], a[k]) } }

\* the ascending order of the indices in S in which equal elements are in
\* the order of the build
RECURSIVE AscendingOrder(_, _)
AscendingOrder(a, S) ==
    IF S = {} THEN <<>>
    ELSE LET least == { j \in S : \A k \in S : FLe(a[j], a[k]) }
             i == CHOOSE j \in least :
                      \A k \in least :
                          IF argsort_ties = "kept" THEN j <= k ELSE j >= k
         IN <<i>> \o AscendingOrder(a, S \ {i})

\* np.argsort(a): the index array that puts a in ascending order. The default
\* kind ("quicksort") is not stable: the order of equal elements is whatever
\* the build's sort makes it, and the same for every call of one build:
\* their input order ("kept") or the opposite ("reversed").
argsort(a) == { AscendingOrder(a, 1..Len(a)) }

\* np.argsort(scores)[::-1]
DescendingIndices == { Reverse(p) : p \in argsort(Scores) }

\* self.bioactivities[indices]: the labels in the order of indices, or the
\* exception the indexing raises
IndexingError ==
    IF bioactivities = None THEN "TypeError"
    ELSE IF Len(molecules) > Len(Labels) THEN "IndexError"
    ELSE "ok"

Take(a, indices) == [i \in 1..Len(indices) |-> a[indices[i]]]

\* confusion_matrix -----------------------------------------------------
\* the cells of a loop that compares with score >= threshold
Cell_nonstrict(label, above, threshold) ==
    Cardinality({ ii \in 1..Len(molecules) :
        /\ Labels[ii] = label
        /\ FLe(threshold, molecules[ii].score) = above })

\* the cells counted by the loop over self.molecules
Cell(label, above, threshold) ==
    Cardinality({ ii \in 1..Len(molecules) :
        /\ Labels[ii] = label
        /\ FLt(threshold, molecules[ii].score) = above })

confusion_matrix ==
    \E threshold \in Thresholds :
        /\ result' =
             IF scoring_metric = "Similarity" /\ threshold = None
             THEN Raised("confusion_matrix", threshold, "MissingParameters")
             ELSE LET t == IF scoring_metric = "SSD" THEN <<0, 1>> ELSE threshold
                      cf_matrix == << <<Cell(1, TRUE, t), Cell(0, TRUE, t)>>,
                                      <<Cell(1, FALSE, t), Cell(0, FALSE, t)>> >>
                  IN IF molecules # <<>> /\ IndexingError # "ok"
                     THEN Raised("confusion_matrix", threshold, IndexingError)
                     ELSE IF cf_matrix[1][1] + cf_matrix[1][2] + cf_matrix[2][1]
                             + cf_matrix[2][2] # n_molecules
                     THEN Raised("confusion_matrix", threshold, "AssertionError")
                     ELSE Returned("confusion_matrix", threshold, cf_matrix)
        /\ UNCHANGED <<session, argsort_ties>>

\* AUC -------------------------------------------------------------------
\* A faulty trapezoid_area that forgets to halve the summed heights; C3 must
\* tell it from the real one.
trapezoid_area_unhalved(x1, x2, y1, y2) == <<Abs(x1 - x2) * Abs(y1 + y2), 1>>

\* trapezoid_area(x1, x2, y1, y2): base * average height
trapezoid_area(x1, x2, y1, y2) == <<Abs(x1 - x2) * Abs(y1 + y2), 2>>

\* the sentinel score_prev starts from
ScoreSentinel == <<-10000000, 1>>

\* A faulty AUC loop that adds a trapezoid at every sample instead of at every
\* change of score (no collapsing of ties); C2 must tell it from the real one.
RECURSIVE AUCLoop_pointwise(_, _, _, _)
AUCLoop_pointwise(scores, labels, i, st) ==
    IF i > Len(labels) THEN st
    ELSE LET a == [st EXCEPT
                     !.area = FAdd(st.area,
                                   <<Abs(st.false_positives - st.false_pos_prev)
                                       * Abs(st.true_positives + st.true_pos_prev), 2>>),
                     !.score_prev = scores[i],
                     !.false_pos_prev = st.false_positives,
                     !.true_pos_prev = st.true_positives]
             b == IF labels[i] = 1
                  THEN [a EXCEPT !.true_positives = a.true_positives + 1]
                  ELSE [a EXCEPT !.false_positives = a.false_positives + 1]
         IN AUCLoop_pointwise(scores, labels, i + 1, b)

\* The while loop of AUC from position i on; st holds the loop's variables.
RECURSIVE AUCLoop(_, _, _, _)
AUCLoop(scores, labels, i, st) ==
    IF i > Len(labels) THEN st
    ELSE LET changed == ~FEq(scores[i], st.score_prev)
             a == IF changed
                  THEN [st EXCEPT
                          !.area = FAdd(st.area,
                                        trapezoid_area(st.false_positives, st.false_pos_prev,
                                                       st.true_positives, st.true_pos_prev)),
                          !.score_prev = scores[i],
                          !.false_pos_prev = st.false_positives,
                          !.true_pos_prev = st.true_positives]
                  ELSE st
             b == IF labels[i] = 1
                  THEN [a EXCEPT !.true_positives = a.true_positives + 1]
                  ELSE [a EXCEPT !.false_positives = a.false_positives + 1]
         IN AUCLoop(scores, labels, i + 1, b)

AUCStart == [false_positives |-> 0, true_positives |-> 0, false_pos_prev |-> 0,
             true_pos_prev |-> 0, area |-> <<0, 1>>, score_prev |-> ScoreSentinel]

\* the area AUC computes with the sorted order indices, before its assertion
AUCArea(indices) ==
    LET scores == Take(Scores, indices)
        labels == Take(Labels, indices)
        st == AUCLoop(scores, labels, 1, AUCStart)
        area == FAdd(st.area, trapezoid_area(n_inactives, st.false_pos_prev,
                                             n_actives, st.true_pos_prev))
    IN FDiv(area, Num(n_inactives * n_actives))

\* an AUC that sorts self.molecules in place instead of sorting an index array
AUC_sorting_in_place ==
    /\ IF IndexingError # "ok"
       THEN /\ result' = Raised("AUC", None, IndexingError)
            /\ UNCHANGED molecules
       ELSE \E indices \in DescendingIndices :
              /\ molecules' = Take(molecules, indices)
              /\ result' = Returned("AUC", None, AUCArea(indices))
    /\ UNCHANGED <<scoring_metric, n_actives, n_inactives, bioactivities,
                   n_molecules, argsort_ties>>

AUC ==
    /\ IF IndexingError # "ok"
       THEN result' = Raised("AUC", None, IndexingError)
       ELSE \E area \in { AUCArea(indices) : indices \in DescendingIndices } :
              result' = IF FLe(<<0, 1>>, area) /\ FLe(area, <<1, 1>>)
                        THEN Returned("AUC", None, area)
                        ELSE Raised("AUC", None, "AssertionError")
    /\ UNCHANGED <<session, argsort_ties>>

\* ROC_plot ----------------------------------------------------------------
\* The while loop of ROC_plot from position i on.
RECURSIVE ROCLoop(_, _, _, _)
ROCLoop(scores, labels, i, st) ==
    IF i > Len(labels) THEN st
    ELSE LET changed == ~FEq(scores[i], st.score_prev)
             a == IF changed
                  THEN [st EXCEPT
                          !.x = Append(st.x, Div(st.false_positives, n_inactives)),
                          !.y = Append(st.y, Div(st.true_positives, n_actives)),
                          !.score_prev = scores[i]]
                  ELSE st
             b == IF labels[i] = 1
                  THEN [a EXCEPT !.true_positives = a.true_positives + 1]
                  ELSE [a EXCEPT !.false_positives = a.false_positives + 1]
         IN ROCLoop(scores, labels, i + 1, b)

ROCStart == [false_positives |-> 0, true_positives |-> 0, x |-> <<>>, y |-> <<>>,
             score_prev |-> ScoreSentinel]

\* the coordinate series ROC_plot hands to ax.plot
ROCPoints(indices) ==
    LET scores == Take(Scores, indices)
        labels == Take(Labels, indices)
        st == ROCLoop(scores, labels, 1, ROCStart)
    IN [x |-> Append(st.x, Div(st.false_positives, n_inactives)),
        y |-> Append(st.y, Div(st.true_positives, n_actives))]

ROC_plot ==
    /\ IF IndexingError # "ok"
       THEN result' = Raised("ROC_plot", None, IndexingError)
       ELSE \E points \in { ROCPoints(indices) : indices \in DescendingIndices } :
              result' = Returned("ROC_plot", None, points)
    /\ UNCHANGED <<session, argsort_ties>>

\* _enrichment_data --------------------------------------------------------
\* actives_counter after the loop has visited the first k sorted labels
RECURSIVE ActivesCounter(_, _)
ActivesCounter(labels, k) ==
    IF k = 0 THEN 0
    ELSE ActivesCounter(labels, k - 1) + (IF labels[k] = 1 THEN 1 ELSE 0)

\* the two lists _enrichment_data returns for the sorted order indices;
\* position 1 is the initial [0], position ii + 2 is appended by pass ii
EnrichmentLists(indices) ==
    LET labels == Take(Labels, indices)
        n == Len(labels)
    IN [screened_percentage |->
          [k \in 1..(n + 1) |-> IF k = 1 THEN <<0, 1>> ELSE <<k - 2, n>>],
        percentage_actives_found |->
          [k \in 1..(n + 1) |-> IF k = 1 THEN <<0, 1>>
                                ELSE Div(ActivesCounter(labels, k - 1), n_actives)]]

\* _enrichment_data(), as enrichment_plot calls it
enrichment_data ==
    /\ IF IndexingError # "ok"
       THEN result' = Raised("_enrichment_data", None, IndexingError)
       ELSE \E data \in { EnrichmentLists(indices) : indices \in DescendingIndices } :
              result' = Returned("_enrichment_data", None, data)
    /\ UNCHANGED <<session, argsort_ties>>

\* enrichment_factor -------------------------------------------------------
\* the positions of a that the boolean mask keeps, in order
RECURSIVE Masked(_, _, _)
Masked(a, limit, k) ==
    IF k > Len(a) THEN <<>>
    ELSE (IF FLe(a[k], limit) THEN <<a[k]>> ELSE <<>>) \o Masked(a, limit, k + 1)

\* np.argsort(filtered)[-1]: the last index of an ascending order of filtered
LastOfArgsort(filtered) == { p[Len(filtered)] : p \in argsort(filtered) }

enrichment_factor ==
    \E percentage \in Percentages :
        /\ IF percentage < 0 \/ percentage > 100
           THEN result' = Raised("enrichment_factor", percentage,
                                 "OpenPharmacophoreValueError")
           ELSE IF IndexingError # "ok"
           THEN result' = Raised("enrichment_factor", percentage, IndexingError)
           ELSE \E data \in { EnrichmentLists(indices) : indices \in DescendingIndices } :
                  LET filtered == Masked(data.screened_percentage, <<percentage, 100>>, 1)
                  IN \E max_enrichment_idx \in LastOfArgsort(filtered) :
                       result' = Returned("enrichment_factor", percentage,
                                   Scale(data.percentage_actives_found[max_enrichment_idx], 100))
        /\ UNCHANGED <<session, argsort_ties>>

\* ideal_enrichment_factor -------------------------------------------------
IdealValue(percentage) ==
    LET pct == <<percentage, 100>>
        ratio_actives == Div(n_actives, Len(Labels))
    IN IF FLe(pct, ratio_actives)
       THEN FMul(FDiv(<<100, 1>>, ratio_actives), pct)
       ELSE <<100, 1>>

\* The percentages ideal_enrichment_factor is called with: it checks no
\* range, and the metrics are compared at these.
IdealPercentages == {0, 50, 100}

ideal_enrichment_factor ==
    \E percentage \in IdealPercentages :
        /\ result' =
             IF bioactivities = None
             THEN Raised("ideal_enrichment_factor", percentage, "AttributeError")
             ELSE Returned("ideal_enrichment_factor", percentage, IdealValue(percentage))
        /\ UNCHANGED <<session, argsort_ties>>

Next ==
    \/ from_bioactivity_data_BadShape
    \/ from_bioactivity_data_Mismatch
    \/ from_bioactivity_data_Score
    \/ confusion_matrix
    \/ AUC
    \/ ROC_plot
    \/ enrichment_data
    \/ enrichment_factor
    \/ ideal_enrichment_factor

Spec == Init /\ [][Next]_vars

\* The session under its loading calls alone. No metric assigns to the
\* session, so the loads of this specification build every store that the
\* loads of Spec build.
NextLoad ==
    \/ from_bioactivity_data_BadShape
    \/ from_bioactivity_data_Mismatch
    \/ from_bioactivity_data_Score

SpecLoad == Init /\ [][NextLoad]_vars

\* ---------------------------------------------------------------- claims
\* a from_bioactivity_data call has completed on the session
Scored == bioactivities # None

\* the store and the label array have the same length, so that every label
\* is paired by position with a score
Paired == Scored /\ Len(molecules) = Len(Labels)

ActiveIdx == { i \in 1..Len(Labels) : Labels[i] = 1 }

InactiveIdx == { i \in 1..Len(Labels) : Labels[i] = 0 }

NonDegenerate == Scored /\ ActiveIdx # {} /\ InactiveIdx # {}

\* (active, inactive) pairs in which the active's score is strictly higher
StrictPairs ==
    { pr \in ActiveIdx \X InactiveIdx :
        FLt(molecules[pr[2]].score, molecules[pr[1]].score) }

\* (active, inactive) pairs with equal scores
TiedPairs ==
    { pr \in ActiveIdx \X InactiveIdx :
        FEq(molecules[pr[2]].score, molecules[pr[1]].score) }

MatrixSum(m) == m[1][1] + m[1][2] + m[2][1] + m[2][2]

\* C1: whenever confusion_matrix is called with a usable threshold, in any
\* session state, it returns a matrix whose four entries sum to n_molecules;
\* neither its assertion nor anything else fails.
C1_MatrixSumsToNMolecules ==
    (result.op = "confusion_matrix" /\ result.status # "MissingParameters")
        => /\ result.status = "ok"
           /\ MatrixSum(result.value) = n_molecules

\* C2: with scores paired by position with a label array that has an active
\* and an inactive, AUC returns (strict pairs + half the tied pairs) divided
\* by n_actives * n_inactives, whatever order the sort leaves ties in.
C2_AUCCountsTiesAsHalf ==
    (result.op = "AUC" /\ Paired /\ NonDegenerate)
        => /\ result.status = "ok"
           /\ FEq(result.value,
                  <<2 * Cardinality(StrictPairs) + Cardinality(TiedPairs),
                    2 * Cardinality(ActiveIdx) * Cardinality(InactiveIdx)>>)

\* C2 witness: AUC has returned for a paired session of three molecules in
\* which an active ties with an inactive and another pair is strictly ordered.
C2_Witness ==
    /\ result.op = "AUC" /\ result.status = "ok"
    /\ Paired /\ NonDegenerate
    /\ Len(molecules) = 3
    /\ TiedPairs # {}
    /\ StrictPairs # {}

PerfectRanking ==
    \A i \in ActiveIdx, j \in InactiveIdx :
        FLt(molecules[j].score, molecules[i].score)

InvertedRanking ==
    \A i \in ActiveIdx, j \in InactiveIdx :
        FLt(molecules[i].score, molecules[j].score)

AllScoresEqual ==
    \A i, j \in 1..Len(molecules) : FEq(molecules[i].score, molecules[j].score)

\* C3: for a label set with an active and an inactive the assertion at the end
\* of AUC never fails and a returned area lies in [0, 1]; when every label is
\* paired with a score, AUC returns, and it returns exactly 1 for a perfect
\* ranking, exactly 0 for an inverted one and exactly 1/2 when all scores are
\* equal.
C3_AUCRangeAndExtremes ==
    (result.op = "AUC" /\ NonDegenerate)
        => /\ result.status # "AssertionError"
           /\ result.status = "ok"
                => FLe(<<0, 1>>, result.value) /\ FLe(result.value, <<1, 1>>)
           /\ Paired
                => /\ result.status = "ok"
                   /\ PerfectRanking => result.value[1] = result.value[2]
                   /\ InvertedRanking => result.value[1] = 0 /\ result.value[2] > 0
                   /\ AllScoresEqual => 2 * result.value[1] = result.value[2]

\* C3 witness: AUC has returned for a perfect ranking of three molecules.
C3_Witness ==
    /\ result.op = "AUC" /\ result.status = "ok"
    /\ Paired /\ NonDegenerate
    /\ Len(molecules) = 3
    /\ PerfectRanking

\* C4: _enrichment_data returns n + 1 points, the first is (0, 0), the point
\* at position k (k = 0..n) has the screened fraction k/n, so the last one has
\* the screened fraction 1.
C4_EnrichmentPointsAtKOverN ==
    (result.op = "_enrichment_data" /\ result.status = "ok" /\ Len(molecules) >= 1)
        => LET n == Len(molecules)
               xs == result.value.screened_percentage
               ys == result.value.percentage_actives_found
           IN /\ Len(xs) = n + 1 /\ Len(ys) = n + 1
              /\ FEq(xs[1], <<0, 1>>) /\ FEq(ys[1], <<0, 1>>)
              /\ \A k \in 0..n : FEq(xs[k + 1], <<k, n>>)
              /\ FEq(xs[n + 1], <<1, 1>>)

\* C5: in a scored session with at least one active, for a percentage in
\* [0, 100], enrichment_factor never exceeds ideal_enrichment_factor.
C5_EnrichmentBelowIdeal ==
    (result.op = "enrichment_factor" /\ result.status = "ok" /\ n_actives >= 1)
        => FLe(result.value, IdealValue(result.arg))

\* C6: on a label set without actives or without inactives ROC_plot and AUC
\* fail with an error of their own: they neither return (NaN/Inf coordinates,
\* a non-number) nor trip the range assertion.
C6_DegenerateLabelSetFails ==
    (result.op \in {"ROC_plot", "AUC"} /\ Scored /\ (n_actives = 0 \/ n_inactives = 0))
        => result.status \notin {"ok", "AssertionError"}

\* C7: on a freshly constructed session, on which no load has run, every
\* metric fails with an error and returns no value.
C7_MetricBeforeScoringFails ==
    (~Scored /\ result.op \in {"confusion_matrix", "AUC", "ROC_plot", "_enrichment_data",
                               "enrichment_factor", "ideal_enrichment_factor"})
        => result.status # "ok"

\* C8: n_actives + n_inactives = n_molecules in every state of the session.
C8_CountsAddUp == n_actives + n_inactives = n_molecules

\* the id of the i-th molecule of the latest load (ids are serial numbers)
LatestId(i) == Given - Len(Labels) + i

\* C9: after every completed from_bioactivity_data call the store is as long
\* as the label array and its record at index i is the record of the molecule
\* whose label is at index i.
C9_StorePairedWithLabels ==
    (result.op = "from_bioactivity_data" /\ result.status = "ok")
        => /\ Len(molecules) = Len(Labels)
           /\ \A i \in 1..Len(Labels) : molecules[i].id = LatestId(i)

NonDecreasing(a) == \A i \in 1..(Len(a) - 1) : FLe(a[i], a[i + 1])

\* C10: in a scored session whose label array has an active and an inactive,
\* ROC_plot produces a curve that is non-decreasing in both coordinates,
\* starts at (0, 0) and ends exactly at (1, 1).
C10_ROCMonotoneToOneOne ==
    (result.op = "ROC_plot" /\ NonDegenerate)
        => /\ result.status = "ok"
           /\ LET x == result.value.x
                  y == result.value.y
              IN /\ NonDecreasing(x) /\ NonDecreasing(y)
                 /\ FEq(x[1], <<0, 1>>) /\ FEq(y[1], <<0, 1>>)
                 /\ FEq(x[Len(x)], <<1, 1>>) /\ FEq(y[Len(y)], <<1, 1>>)

\* C11: in every scored session enrichment_factor(100) returns exactly 100.0,
\* whatever the scores and whatever the number of actives among the labels.
C11_EnrichmentFactorAt100 ==
    (result.op = "enrichment_factor" /\ result.arg = 100 /\ Scored)
        => /\ result.status = "ok"
           /\ FEq(result.value, <<100, 1>>)

\* the threshold the classification is made with: the caller's value for
\* "Similarity", 0.0 for "SSD"
EffectiveThreshold(threshold) ==
    IF scoring_metric = "SSD" THEN <<0, 1>> ELSE threshold

\* the records whose score is strictly above t
PredictedActive(t) == { i \in 1..Len(molecules) : FLt(t, molecules[i].score) }

StoredActive == { i \in 1..Len(molecules) : Labels[i] = 1 }

StoredInactive == { i \in 1..Len(molecules) : Labels[i] = 0 }

ValidationError ==
    \/ /\ result.op = "from_bioactivity_data"
       /\ result.status \in {"BadShapeError", "OpenPharmacophoreValueError"}
    \/ /\ result.op = "enrichment_factor"
       /\ result.status = "OpenPharmacophoreValueError"

\* C13: from_bioactivity_data with a label array of rank > 1 fails with
\* BadShapeError, with lists of different lengths with a value error, and
\* enrichment_factor with a percentage below 0 or above 100 with a value
\* error; a call that fails so leaves n_actives, n_inactives, bioactivities,
\* molecules and n_molecules exactly as they were.
C13_ValidationBeforeAnyChange ==
    [][ /\ (result'.op = "from_bioactivity_data" /\ result'.status # "ok")
            => /\ result'.arg \in {"rank 2", "lengths differ"}
               /\ result'.status = IF result'.arg = "rank 2"
                                    THEN "BadShapeError"
                                    ELSE "OpenPharmacophoreValueError"
        /\ (result'.op = "enrichment_factor"
              /\ (result'.arg < 0 \/ result'.arg > 100))
            => result'.status = "OpenPharmacophoreValueError"
        /\ ValidationError'
            => UNCHANGED <<n_actives, n_inactives, bioactivities, molecules,
                           n_molecules>> ]_vars

\* a scored session with records in its store whose last call was a
\* from_bioactivity_data rejected for lists of different lengths
C13_Witness ==
    /\ result.op = "from_bioactivity_data"
    /\ result.status = "OpenPharmacophoreValueError"
    /\ Scored /\ molecules # <<>> /\ n_actives >= 1

\* the embedding step throws for the molecule m
EmbeddingThrows(m) ==
    m.aligner.can_match /\ ~m.aligner.failed /\ m.aligner.throws

\* m cannot match, its match step fails, or it yields no embeddings
NoFit(m) ==
    \/ ~m.aligner.can_match
    \/ m.aligner.failed
    \/ ~m.aligner.throws /\ m.aligner.SSDs = <<>>

\* C14: in the geometric ("SSD") strategy a load appends records in input
\* order and leaves the earlier records as they were: a molecule whose
\* embedding step throws gets no record; a molecule that cannot match, whose
\* match step fails or that yields no embeddings gets one record with score
\* 0.0 and the molecule itself as payload; every other molecule gets one
\* record with score 1/SSD of its embedding of least SSD.
C14_AlignAppendsInOrder ==
    [][ (result'.op = "from_bioactivity_data" /\ result'.status = "ok"
          /\ scoring_metric = "SSD")
        => LET old == Len(molecules)
               kept == SelectSeq(result'.arg.molecules,
                                 LAMBDA m : ~EmbeddingThrows(m))
           IN /\ Len(molecules') = old + Len(kept)
              /\ SubSeq(molecules', 1, old) = molecules
              /\ \A k \in 1..Len(kept) :
                    LET m == kept[k]
                        r == molecules'[old + k]
                        SSDs == m.aligner.SSDs
                    IN /\ r.id = m.id
                       /\ IF NoFit(m)
                          THEN FEq(r.score, <<0, 1>>) /\ r.mol = <<"mol", m.id>>
                          ELSE /\ r.mol[1] = "embedding" /\ r.mol[2] = m.id
                               /\ \A j \in 1..Len(SSDs) : SSDs[r.mol[3]] <= SSDs[j]
                               /\ FEq(r.score, <<1, SSDs[r.mol[3]]>>) ]_vars

\* an "SSD" load onto a store that already had a record, in which a molecule
\* whose embedding step throws comes before a molecule whose second
\* embedding has the least SSD
C14_Witness ==
    /\ result.op = "from_bioactivity_data" /\ result.status = "ok"
    /\ scoring_metric = "SSD"
    /\ LET given == result.arg.molecules
       IN /\ Len(given) = 2
          /\ EmbeddingThrows(given[1])
          /\ given[2].aligner.SSDs = <<2, 1>>
          /\ Len(molecules) = 2
          /\ molecules[2].id = given[2].id
          /\ FEq(molecules[2].score, <<1, 1>>)

\* the descending order of the scores a stable sort gives: records of equal
\* score in their input order
StableDescending ==
    CHOOSE p \in { Reverse(q) : q \in AscendingOrders(Scores, 1..Len(Scores)) } :
        \A i, j \in 1..Len(p) :
            (i < j /\ FEq(Scores[p[i]], Scores[p[j]])) => p[i] < p[j]

\* C15: the descending sort is stable: records of equal score are visited
\* in their input order, so the enrichment curve is the curve of the stable
\* descending order.
C15_DescendingSortStable ==
    (result.op = "_enrichment_data" /\ result.status = "ok")
        => result.value = EnrichmentLists(StableDescending)

\* the calls of the metrics engine
MetricOps ==
    {"confusion_matrix", "AUC", "ROC_plot", "_enrichment_data",
     "enrichment_factor", "ideal_enrichment_factor"}

\* C16: a metric call leaves molecules, bioactivities, n_actives, n_inactives
\* and n_molecules unchanged, and a metric called again with the same
\* arguments right after its own call has the outcome it had before.
C16_MetricsArePureReads ==
    [][ result'.op \in MetricOps
        => /\ UNCHANGED <<molecules, bioactivities, n_actives, n_inactives,
                          n_molecules>>
           /\ (result.op = result'.op /\ result.arg = result'.arg)
                 => result' = result ]_vars

\* an enrichment factor computed for a scored store in which an active and
\* an inactive have the same score, so that the value hangs on the order the
\* sort gives the two
C16_Witness ==
    /\ result.op = "enrichment_factor" /\ result.status = "ok"
    /\ result.arg = 50
    /\ Paired /\ Len(molecules) = 2
    /\ FEq(molecules[1].score, molecules[2].score)
    /\ Labels[1] # Labels[2]

=============================================================================
